---- MODULE Spec2Model ----
(***************************************************************************)
(* State-machine model of gpu_fractals.cpp: argument parsing, start-up,    *)
(* the render loop (pan / zoom, throttled key actions, export) and the     *)
(* asynchronous compute dispatch the export reads back.                    *)
(*                                                                         *)
(* Conventions                                                             *)
(*  - Strings are sequences of ASCII codes, so that tolower and atoi are   *)
(*    computed as the library computes them.                               *)
(*  - Viewport coordinates are exact multiples of 1/2, stored as the       *)
(*    integer number of halves (xlim = {-1.0, 1.0} is <<-2, 2>>).  Cursor  *)
(*    deltas are drawn from values for which the update is exact on that   *)
(*    grid, so no rounding is modelled.                                    *)
(*  - Time is in milliseconds since the epoch of system_clock.             *)
(*  - A run fixes what surrounds the program: the command line, whether    *)
(*    the platform may fail during start-up, and which controls the user   *)
(*    touches (Runs).  The runs are explored side by side.                 *)
(***************************************************************************)
EXTENDS Integers, Sequences, FiniteSets, TLC

\* ------------------------------------------------------------------ bounds
\* Largest absolute viewport coordinate (in halves) the model follows.
MaxCoord == 16
\* Number of render-loop iterations the model follows.
MaxFrames == 3
\* Value of system_clock (ms) when the render loop is entered.
StartTime == 1000
\* Width of the window of iteration caps followed below INT_MAX.
NearMax == 12

\* --------------------------------------------------------------- constants
ActionDelay == 250
PanDivisor == 600
DefaultIters == 40
DefaultRoots == 3
\* Largest value of int (Params.niters is a 32-bit int).
INT_MAX == 2147483647
INT_MIN == -INT_MAX - 1

\* ----------------------------------------------------------------- strings
StrNewton == <<78, 101, 119, 116, 111, 110>>
StrJulia == <<74, 117, 108, 105, 97>>
StrMandelbrot == <<77, 97, 110, 100, 101, 108, 98, 114, 111, 116>>

\* Command lines offered to main; each is argv[1..argc-1].
Str_newton == <<110, 101, 119, 116, 111, 110>>
Str_JULIA == <<74, 85, 76, 73, 65>>
Str_Newto == <<78, 101, 119, 116, 111>>
Str_Julian == <<74, 117, 108, 105, 97, 110>>
Str_Fern == <<70, 101, 114, 110>>
Str_Mandelbrod == <<77, 97, 110, 100, 101, 108, 98, 114, 111, 100>>
Str_0 == <<48>>
Str_m1 == <<45, 49>>
Str_5 == <<53>>
Str_12 == <<49, 50>>
Str_x == <<120>>

ArgVectors ==
    { <<>>,
      <<Str_Fern>>, <<Str_Newto>>, <<Str_Julian>>, <<Str_Mandelbrod>>, <<<<>>>>,
      <<StrNewton>>, <<Str_newton, Str_5>>, <<StrNewton, Str_0>>,
      <<StrNewton, Str_m1>>, <<StrNewton, Str_x>>,
      <<Str_JULIA>>, <<StrJulia, Str_12>>,
      <<StrMandelbrot>> }

\* What surrounds the program in a run: whether a start-up stage may fail,
\* and the controls the user touches while the window is open.
Runs ==
    { [faults |-> TRUE,  user |-> {}],
      [faults |-> FALSE, user |-> {"mouse"}],
      [faults |-> FALSE, user |-> {"keys", "export"}] }

\* std::tolower in the "C" locale.
tolower(c) == IF c >= 65 /\ c <= 90 THEN c + 32 ELSE c

Min(a, b) == IF a < b THEN a ELSE b

\* istreq with the length test left out: the comparison runs over the common
\* prefix only.
istreq_prefix(s1, s2) ==
    IF \E i \in 1..Min(Len(s1), Len(s2)) : tolower(s1[i]) # tolower(s2[i])
    THEN {FALSE}
    ELSE BOOLEAN

\* istreq: the set of values the call can return.  Unequal lengths or a
\* differing character return false.  When every character matches, control
\* reaches the closing brace of a bool function without a return statement:
\* the value returned is undefined, so either value is possible.
istreq(s1, s2) ==
    IF Len(s1) # Len(s2)
    THEN {FALSE}
    ELSE IF \E i \in 1..Len(s1) : tolower(s1[i]) # tolower(s2[i])
         THEN {FALSE}
         ELSE BOOLEAN

IsDigit(c) == c >= 48 /\ c <= 57

RECURSIVE AtoiDigits(_, _, _)
AtoiDigits(s, i, acc) ==
    IF i > Len(s) \/ ~IsDigit(s[i])
    THEN acc
    ELSE AtoiDigits(s, i + 1, acc * 10 + (s[i] - 48))

\* std::atoi: optional sign, then decimal digits up to the first non-digit;
\* 0 when no digit is found.
atoi(s) ==
    IF Len(s) >= 1 /\ s[1] = 45 THEN -AtoiDigits(s, 2, 0)
    ELSE IF Len(s) >= 1 /\ s[1] = 43 THEN AtoiDigits(s, 2, 0)
    ELSE AtoiDigits(s, 1, 0)

\* An angle is <<unit, num, den>>: unit * num / den radians.
\* std::atof on the integer literals the command lines above carry.
atof(s) == <<"1", atoi(s), 1>>

\* ParamsStruct as default-constructed.
ParamsStruct ==
    [ niters |-> DefaultIters,
      nroots |-> DefaultRoots,
      angle  |-> <<"M_PI", 1, 2>>,
      xlim   |-> <<-2, 2>>,
      ylim   |-> <<-2, 2>> ]

FractalType == {"NEWTON", "JULIA", "MANDELBROT", "INVALID"}

\* The lines usage() writes, as one entry of the stream.
usage == "Usage"

\* parse_args: the set of outcomes [Type, Params, err] of the call, err being
\* what it writes to std::cerr.  args is argv[1..argc-1], so argc = Len + 1.
parse_args(args, P) ==
    IF Len(args) + 1 < 2
    THEN { [Type |-> "INVALID", Params |-> P,
            err |-> <<"At least one argument is required.", usage>>] }
    ELSE
      UNION { IF rN
              THEN IF Len(args) + 1 > 2
                   THEN LET Q == [P EXCEPT !.nroots = atoi(args[2])]
                        IN  IF Q.nroots < 1
                            THEN { [Type |-> "INVALID", Params |-> Q,
                                    err |-> <<"Number of roots must be greater than zero.">>] }
                            ELSE { [Type |-> "NEWTON", Params |-> Q, err |-> <<>>] }
                   ELSE { [Type |-> "NEWTON", Params |-> P, err |-> <<>>] }
              ELSE
                UNION { IF rJ
                        THEN IF Len(args) + 1 > 2
                             THEN { [Type |-> "JULIA",
                                     Params |-> [P EXCEPT !.angle = atof(args[2])],
                                     err |-> <<>>] }
                             ELSE { [Type |-> "JULIA", Params |-> P, err |-> <<>>] }
                        ELSE
                          UNION { IF rM
                                  THEN { [Type |-> "MANDELBROT",
                                          Params |-> [P EXCEPT !.xlim = <<-4, 2>>,
                                                               !.ylim = <<-3, 3>>],
                                          err |-> <<>>] }
                                  ELSE { [Type |-> "INVALID", Params |-> P,
                                          err |-> <<"Invalid fractal type.", usage>>] }
                                : rM \in istreq(args[1], StrMandelbrot) }
                      : rJ \in istreq(args[1], StrJulia) }
            : rN \in istreq(args[1], StrNewton) }


\* check_compile_errors: the set of values the call can return for an object
\* whose own status is Success.  For a shader, glGetShaderiv stores the compile
\* status.  For GL_PROGRAM the same glGetShaderiv(.., GL_COMPILE_STATUS, ..) is
\* issued on a program name: it raises a GL error and stores nothing, so the
\* branch reads the uninitialised local and either value is possible.
check_compile_errors(Success, Kind) ==
    IF Kind = "GL_PROGRAM" THEN BOOLEAN ELSE {Success}

CompileError(Kind) ==
    CASE Kind = "GL_VERTEX_SHADER"   -> "Error compiling vertex shader."
      [] Kind = "GL_FRAGMENT_SHADER" -> "Error compiling fragment shader."
      [] Kind = "GL_COMPUTE_SHADER"  -> "Error compiling compute shader."
      [] OTHER                       -> "Error compiling shader program."

\* ----------------------------------------------------------------- numbers
\* n + k and n - k (k > 0) on a 32-bit int, wrapping in two's complement.
\* No intermediate value leaves the int range.
AddInt(n, k) ==
    IF n > INT_MAX - k THEN INT_MIN + ((k - 1) - (INT_MAX - n)) ELSE n + k

SubInt(n, k) ==
    IF n < INT_MIN + k THEN INT_MAX - ((k - 1) - (n - INT_MIN)) ELSE n - k

\* sqrt on the non-negative integers: the floor of the root (exact on every
\* area the render loop produces, see OnGrid).
sqrt(a) == CHOOSE r \in 0..a : r * r <= a /\ (r + 1) * (r + 1) > a

SurfArea(P) == (P.xlim[2] - P.xlim[1]) * (P.ylim[2] - P.ylim[1])
UnitLength(P) == sqrt(SurfArea(P))

\* The update d * UnitLength / 600.0 is exact on the grid of halves.
OnGrid(P, d) ==
    /\ SurfArea(P) >= 0
    /\ UnitLength(P) * UnitLength(P) = SurfArea(P)
    /\ (d * UnitLength(P)) % PanDivisor = 0

Step(P, d) == (d * UnitLength(P)) \div PanDivisor

\* Movement branch (GLFW_MOUSE_BUTTON_1).
Pan(P, dx, dy) ==
    [P EXCEPT !.xlim = <<P.xlim[1] + Step(P, dx), P.xlim[2] + Step(P, dx)>>,
              !.ylim = <<P.ylim[1] - Step(P, dy), P.ylim[2] - Step(P, dy)>>]

\* Zoom with the lower y bound moved the wrong way.
Zoom_skewed(P, dy) ==
    [P EXCEPT !.xlim = <<P.xlim[1] - Step(P, dy), P.xlim[2] + Step(P, dy)>>,
              !.ylim = <<P.ylim[1] + Step(P, dy), P.ylim[2] + Step(P, dy)>>]

\* Zoom branch (GLFW_MOUSE_BUTTON_2).
Zoom(P, dy) ==
    [P EXCEPT !.xlim = <<P.xlim[1] - Step(P, dy), P.xlim[2] + Step(P, dy)>>,
              !.ylim = <<P.ylim[1] - Step(P, dy), P.ylim[2] + Step(P, dy)>>]

InRange(P) ==
    \A i \in 1..2 : /\ P.xlim[i] >= -MaxCoord /\ P.xlim[i] <= MaxCoord
                    /\ P.ylim[i] >= -MaxCoord /\ P.ylim[i] <= MaxCoord

\* Cursor deltas per frame, in pixels.
DX == {-300, 0, 300}
DY == {-600, -300, 0, 300}

\* Milliseconds between two readings of system_clock::now().
FrameTimes == {125, 250}

\* Key states polled in a sampled frame (Shift only matters with + or -).
KeyStates ==
    { k \in [add : BOOLEAN, sub : BOOLEAN, shift : BOOLEAN, e : BOOLEAN] :
        k.shift => (k.add \/ k.sub) }

\* Buttons and cursor deltas of a frame (the cursor delta is only read while
\* a button is held).
MouseStates ==
    { m \in [b1 : BOOLEAN, b2 : BOOLEAN, dx : DX, dy : DY] :
        /\ (~m.b1 /\ ~m.b2) => (m.dx = 0 /\ m.dy = 0)
        /\ (~m.b1 /\ m.b2) => m.dx = 0 }
NoKeys == [add |-> FALSE, sub |-> FALSE, shift |-> FALSE, e |-> FALSE]
NoMouse == [b1 |-> FALSE, b2 |-> FALSE, dx |-> 0, dy |-> 0]

\* The action delay compared with zero.
ActionDue_always(D) == D >= 0

\* if (Delay >= ActionDelay)
ActionDue(D) == D >= ActionDelay

\* Numpad + / - handling on Params.niters.
IterKeys(n, k) ==
    IF k.add
    THEN AddInt(n, IF k.shift THEN 10 ELSE 1)
    ELSE IF k.sub
         THEN LET m == SubInt(n, IF k.shift THEN 10 ELSE 1)
              IN  IF m < 0 THEN 0 ELSE m
         ELSE n

\* ------------------------------------------------------------------ export
RECURSIVE Digits(_)
Digits(n) == IF n < 10 THEN <<n>> ELSE Append(Digits(n \div 10), n % 10)

\* std::setfill('0') << std::setw(3) << n, for n >= 0.
Pad3(n) ==
    LET d == Digits(n)
    IN  IF Len(d) >= 3 THEN d
        ELSE [i \in 1..(3 - Len(d)) |-> 0] \o d

FileName(n) == [prefix |-> "Screenshot", digits |-> Pad3(n), ext |-> ".png"]

\* export_tex with the frame number taken before the staging buffer is
\* checked.
export_tex_eager(S, image, allocOk) ==
    IF S.raw_image = "NULL" /\ ~allocOk
    THEN [S EXCEPT !.cerr = Append(S.cerr, "Cannot export images."),
                   !.CurFrame = S.CurFrame + 1]
    ELSE [S EXCEPT !.raw_image = "allocated",
                   !.CurFrame = S.CurFrame + 1,
                   !.files = Append(S.files, FileName(S.CurFrame))]

\* export_tex on S = [CurFrame, raw_image, files, cerr], its statics, the
\* files written and std::cerr; image is what glGetTexImage reads, allocOk whether malloc succeeds
\* when it is called.
export_tex(S, image, allocOk) ==
    IF S.raw_image = "NULL" /\ ~allocOk
    THEN [S EXCEPT !.cerr = Append(S.cerr, "Cannot export images.")]
    ELSE [S EXCEPT !.raw_image = "allocated",
                   !.CurFrame = S.CurFrame + 1,
                   !.files = Append(S.files, FileName(S.CurFrame))]

\* glMemoryBarrier(GL_SHADER_IMAGE_ACCESS_BARRIER_BIT): the access classes the
\* barrier orders after earlier shader writes.
BarrierBits == {"GL_SHADER_IMAGE_ACCESS_BARRIER_BIT"}

\* glGetTexImage is ordered after earlier shader image stores only by a
\* barrier carrying GL_TEXTURE_UPDATE_BARRIER_BIT.
ReadbackOrdered(bits) == "GL_TEXTURE_UPDATE_BARRIER_BIT" \in bits


\* ------------------------------------------------------------------- state
VARIABLES
    run,         \* the run's surroundings, one of Runs
    argv,        \* argv[1..argc-1]
    Type,        \* FractalType returned by parse_args
    Params,      \* struct ParamsStruct Params
    pc,          \* position of main
    exitCode,    \* <<v>> once main has returned v, <<>> before
    cerr,        \* what has been written to std::cerr
    failed,      \* start-up stages that failed
    glfw,        \* whether glfwInit has been called
    shouldClose, \* glfwWindowShouldClose(Window)
    mouse,       \* buttons and cursor delta of the current frame
    keys,        \* keys polled in the current frame
    now,         \* last value read from system_clock::now()
    Delay,       \* Delay of the current frame
    LastAction,  \* LastAction
    exp,         \* statics of export_tex and the files it has written
    bufParams,   \* contents of ParamsBuf
    pending,     \* compute dispatch not yet completed: <<>> or <<params>>
    texImage,    \* contents of Tex: <<>> (never written) or <<params>>
    fence,       \* barrier bits issued since the last dispatch
    frames,      \* render-loop iterations started
    lastEffect   \* time of the last frame that changed the cap or exported

vars == <<run, argv, Type, Params, pc, exitCode, cerr, failed, glfw, shouldClose,
          mouse, keys, now, Delay, LastAction, exp, bufParams, pending,
          texImage, fence, frames, lastEffect>>

InitWith(iters) ==
    /\ run \in Runs
    /\ argv \in ArgVectors
    /\ Type = "INVALID"
    /\ Params = [ParamsStruct EXCEPT !.niters = iters]
    /\ pc = "main"
    /\ exitCode = <<>>
    /\ cerr = <<>>
    /\ failed = {}
    /\ glfw = FALSE
    /\ shouldClose = FALSE
    /\ mouse = NoMouse
    /\ keys = NoKeys
    /\ now = StartTime
    /\ Delay = 0
    /\ LastAction = 0
    /\ exp = [CurFrame |-> 0, raw_image |-> "NULL", files |-> <<>>]
    /\ bufParams = <<>>
    /\ pending = <<>>
    /\ texImage = <<>>
    /\ fence = {}
    /\ frames = 0
    /\ lastEffect = -1

Init == InitWith(ParamsStruct.niters)

\* Results a start-up stage can have in this run.
Outcomes == IF run.faults THEN BOOLEAN ELSE {TRUE}

\* Inputs the user can give in this run.
MouseInputs == IF "mouse" \in run.user THEN MouseStates ELSE {NoMouse}
KeyInputs ==
    { k \in KeyStates : /\ (k.add \/ k.sub) => "keys" \in run.user
                        /\ k.e => "export" \in run.user }

\* main, lines 214-218.
ParseArgs ==
    /\ pc = "main"
    /\ \E o \in parse_args(argv, Params) :
         /\ Type' = o.Type
         /\ Params' = o.Params
         /\ cerr' = cerr \o o.err
         /\ IF o.Type = "INVALID"
            THEN pc' = "exited" /\ exitCode' = <<-1>>
            ELSE pc' = "window" /\ exitCode' = exitCode
    /\ UNCHANGED <<run, argv, failed, glfw, shouldClose, mouse, keys, now, Delay,
                   LastAction, exp, bufParams, pending, texImage, fence, frames,
                   lastEffect>>

\* main, lines 221-240: glfwInit and glfwCreateWindow.
InitWindow ==
    /\ pc = "window"
    /\ glfw' = TRUE
    /\ \E initOk \in Outcomes, windowOk \in Outcomes :
         IF ~initOk
         THEN /\ cerr' = Append(cerr, "Cannot initialize GLFW.")
              /\ failed' = failed \cup {"glfwInit"}
              /\ pc' = "exited" /\ exitCode' = <<-1>>
         ELSE IF ~windowOk
         THEN /\ cerr' = Append(cerr, "Cannot initialize a window.")
              /\ failed' = failed \cup {"glfwCreateWindow"}
              /\ pc' = "exited" /\ exitCode' = <<-1>>
         ELSE /\ pc' = "glad"
              /\ UNCHANGED <<cerr, failed, exitCode>>
    /\ UNCHANGED <<run, argv, Type, Params, shouldClose, mouse, keys, now, Delay,
                   LastAction, exp, bufParams, pending, texImage, fence, frames,
                   lastEffect>>

\* main, lines 242-247: gladLoadGLLoader.  A failure is reported and main goes
\* on; the GL entry points it then calls were not loaded, so the next call
\* either goes through or brings the process down.
LoadGLAD ==
    /\ pc = "glad"
    /\ \E GLADStatus \in Outcomes :
         IF ~GLADStatus
         THEN /\ cerr' = Append(cerr, "Cannot initialize GLAD.")
              /\ failed' = failed \cup {"gladLoadGLLoader"}
              /\ pc' \in {"shader", "crashed"}
         ELSE /\ pc' = "shader"
              /\ UNCHANGED <<cerr, failed>>
    /\ UNCHANGED <<run, argv, Type, Params, exitCode, glfw, shouldClose, mouse, keys,
                   now, Delay, LastAction, exp, bufParams, pending, texImage,
                   fence, frames, lastEffect>>

\* The stages of a shader set-up in order, each with whether it succeeded (ok)
\* and whether its check let it pass (seen): the first check that does not
\* pass writes its message and ends main with -1.  The result is the stages
\* that failed on the way, and the message if main returned.
RECURSIVE RunStages(_, _)
RunStages(stages, bad) ==
    IF stages = <<>>
    THEN [failed |-> bad, returned |-> FALSE, err |-> <<>>]
    ELSE LET st == Head(stages)
             bad2 == IF st.ok THEN bad ELSE bad \cup {st.name}
         IN  IF st.seen
             THEN RunStages(Tail(stages), bad2)
             ELSE [failed |-> bad2, returned |-> TRUE, err |-> <<st.msg>>]

\* What a set-up does with the result of its stages.
Finish(r, next) ==
    /\ failed' = failed \cup r.failed
    /\ cerr' = cerr \o r.err
    /\ IF r.returned
       THEN pc' = "exited" /\ exitCode' = <<-1>>
       ELSE pc' = next /\ exitCode' = exitCode

\* main, lines 250-286: vertex shader, fragment shader file, fragment shader,
\* render program.
RenderShader ==
    /\ pc = "shader"
    /\ \E vOk \in Outcomes, openOk \in Outcomes, fOk \in Outcomes, linkOk \in Outcomes :
       \E vSeen \in check_compile_errors(vOk, "GL_VERTEX_SHADER"),
          fSeen \in check_compile_errors(fOk, "GL_FRAGMENT_SHADER"),
          pSeen \in check_compile_errors(linkOk, "GL_PROGRAM") :
         Finish(RunStages(
           << [name |-> "vertex shader", ok |-> vOk, seen |-> vSeen,
               msg |-> CompileError("GL_VERTEX_SHADER")],
              [name |-> "fragment shader file", ok |-> openOk, seen |-> openOk,
               msg |-> "Cannot open the compute shader."],
              [name |-> "fragment shader", ok |-> fOk, seen |-> fSeen,
               msg |-> CompileError("GL_FRAGMENT_SHADER")],
              [name |-> "render program", ok |-> linkOk, seen |-> pSeen,
               msg |-> CompileError("GL_PROGRAM")] >>, {}), "compute")
    /\ UNCHANGED <<run, argv, Type, Params, glfw, shouldClose, mouse, keys, now,
                   Delay, LastAction, exp, bufParams, pending, texImage, fence,
                   frames, lastEffect>>

\* main, lines 301-340: texture, compute shader file, compute shader, compute
\* program.
ComputeShader ==
    /\ pc = "compute"
    /\ \E openOk \in Outcomes, cOk \in Outcomes, linkOk \in Outcomes :
       \E cSeen \in check_compile_errors(cOk, "GL_COMPUTE_SHADER"),
          pSeen \in check_compile_errors(linkOk, "GL_PROGRAM") :
         Finish(RunStages(
           << [name |-> "compute shader file", ok |-> openOk, seen |-> openOk,
               msg |-> "Cannot open the compute shader."],
              [name |-> "compute shader", ok |-> cOk, seen |-> cSeen,
               msg |-> CompileError("GL_COMPUTE_SHADER")],
              [name |-> "compute program", ok |-> linkOk, seen |-> pSeen,
               msg |-> CompileError("GL_PROGRAM")] >>, {}), "buffers")
    /\ UNCHANGED <<run, argv, Type, Params, glfw, shouldClose, mouse, keys, now,
                   Delay, LastAction, exp, bufParams, pending, texImage, fence,
                   frames, lastEffect>>

\* main, lines 343-383: ParamsBuf is filled from Params, the help is printed
\* and LastAction is set to the epoch.
SendBuffers ==
    /\ pc = "buffers"
    /\ bufParams' = <<Params>>
    /\ LastAction' = 0
    /\ pc' = "looptest"
    /\ UNCHANGED <<run, argv, Type, Params, exitCode, cerr, failed, glfw, shouldClose,
                   mouse, keys, now, Delay, exp, pending, texImage, fence, frames,
                   lastEffect>>


\* ------------------------------------------------------------- render loop
\* while (!glfwWindowShouldClose(Window)), line 384.
LoopTest ==
    /\ pc = "looptest"
    /\ IF shouldClose
       THEN pc' = "cleanup" /\ frames' = frames
       ELSE frames < MaxFrames /\ frames' = frames + 1 /\ pc' = "mouse"
    /\ UNCHANGED <<run, argv, Type, Params, exitCode, cerr, failed, glfw, shouldClose,
                   mouse, keys, now, Delay, LastAction, exp, bufParams, pending,
                   texImage, fence, lastEffect>>

\* Lines 386-414: Escape, cursor delta, movement or zoom.
MouseStep ==
    /\ pc = "mouse"
    /\ \E esc \in BOOLEAN, m \in MouseInputs :
         /\ shouldClose' = (shouldClose \/ esc)
         /\ mouse' = m
         /\ IF m.b1
            THEN /\ OnGrid(Params, m.dx) /\ OnGrid(Params, m.dy)
                 /\ Params' = Pan(Params, m.dx, m.dy)
            ELSE IF m.b2
            THEN /\ OnGrid(Params, m.dy)
                 /\ Params' = Zoom(Params, m.dy)
            ELSE Params' = Params
         /\ InRange(Params')
    /\ pc' = "keys"
    /\ UNCHANGED <<run, argv, Type, exitCode, cerr, failed, glfw, keys, now, Delay,
                   LastAction, exp, bufParams, pending, texImage, fence, frames,
                   lastEffect>>

\* Lines 416-438, and line 452 when E is not pressed.
KeyStep ==
    /\ pc = "keys"
    /\ \E dt \in FrameTimes :
         LET Now == now + dt
             D   == Now - LastAction
         IN  /\ now' = Now
             /\ Delay' = D
             /\ IF ActionDue(D)
                THEN \E k \in KeyInputs :
                       /\ keys' = k
                       /\ Params' = [Params EXCEPT !.niters = IterKeys(Params.niters, k)]
                       /\ lastEffect' =
                            IF k.e \/ Params'.niters # Params.niters
                            THEN Now ELSE lastEffect
                       /\ IF k.e
                          THEN pc' = "upload" /\ LastAction' = LastAction
                          ELSE pc' = "draw" /\ LastAction' = Now
                ELSE /\ keys' = NoKeys
                     /\ pc' = "draw"
                     /\ UNCHANGED <<Params, lastEffect, LastAction>>
    /\ mouse' = NoMouse
    /\ UNCHANGED <<run, argv, Type, exitCode, cerr, failed, glfw, shouldClose, exp,
                   bufParams, pending, texImage, fence, frames>>

\* Lines 443-444: glBufferData(.., sizeof(Params), &Params, ..).
Upload ==
    /\ pc = "upload"
    /\ bufParams' = <<Params>>
    /\ pc' = "dispatch"
    /\ UNCHANGED <<run, argv, Type, Params, exitCode, cerr, failed, glfw, shouldClose,
                   mouse, keys, now, Delay, LastAction, exp, pending, texImage,
                   fence, frames, lastEffect>>

\* Lines 445-446: glDispatchCompute.  The dispatch is queued; its image stores
\* land when ComputeFinish runs.  An earlier dispatch has completed first:
\* the barrier that followed it orders later shader image accesses after it.
Dispatch ==
    /\ pc = "dispatch"
    /\ pending = <<>>
    /\ pending' = bufParams
    /\ fence' = {}
    /\ pc' = "barrier"
    /\ UNCHANGED <<run, argv, Type, Params, exitCode, cerr, failed, glfw, shouldClose,
                   mouse, keys, now, Delay, LastAction, exp, bufParams, texImage,
                   frames, lastEffect>>

\* Lines 447-448: glMemoryBarrier.
Barrier ==
    /\ pc = "barrier"
    /\ fence' = BarrierBits
    /\ pc' = "export"
    /\ UNCHANGED <<run, argv, Type, Params, exitCode, cerr, failed, glfw, shouldClose,
                   mouse, keys, now, Delay, LastAction, exp, bufParams, pending,
                   texImage, frames, lastEffect>>

\* Lines 450-452: export_tex(Tex), then LastAction = Now.  glGetTexImage waits
\* for the dispatch only if the barrier issued orders it.
ExportTex ==
    /\ pc = "export"
    /\ ReadbackOrdered(fence) => pending = <<>>
    /\ \E allocOk \in BOOLEAN :
         LET S == [CurFrame |-> exp.CurFrame, raw_image |-> exp.raw_image,
                   files |-> exp.files, cerr |-> cerr]
             R == export_tex(S, texImage, allocOk)
         IN  /\ exp' = [CurFrame |-> R.CurFrame, raw_image |-> R.raw_image,
                        files |-> R.files]
             /\ cerr' = R.cerr
    /\ LastAction' = now
    /\ pc' = "draw"
    /\ UNCHANGED <<run, argv, Type, Params, exitCode, failed, glfw, shouldClose, mouse,
                   keys, now, Delay, bufParams, pending, texImage, fence, frames,
                   lastEffect>>

\* The GPU completes the queued dispatch: Tex holds the image of the
\* parameters ParamsBuf held when the dispatch was issued.
ComputeFinish ==
    /\ pending # <<>>
    /\ texImage' = pending
    /\ pending' = <<>>
    /\ UNCHANGED <<run, argv, Type, Params, pc, exitCode, cerr, failed, glfw,
                   shouldClose, mouse, keys, now, Delay, LastAction, exp,
                   bufParams, fence, frames, lastEffect>>

\* Lines 455-482: draw, swap, glfwPollEvents (the window may be asked to
\* close).  The frame's locals go out of scope.
Draw ==
    /\ pc = "draw"
    /\ shouldClose' \in {shouldClose, TRUE}
    /\ keys' = NoKeys
    /\ Delay' = 0
    /\ pc' = "looptest"
    /\ UNCHANGED <<run, argv, Type, Params, exitCode, cerr, failed, glfw, mouse, now,
                   LastAction, exp, bufParams, pending, texImage, fence, frames,
                   lastEffect>>

\* Lines 486-500: clean-up and return 0.
Shutdown ==
    /\ pc = "cleanup"
    /\ pc' = "exited"
    /\ exitCode' = <<0>>
    /\ UNCHANGED <<run, argv, Type, Params, cerr, failed, glfw, shouldClose, mouse,
                   keys, now, Delay, LastAction, exp, bufParams, pending, texImage,
                   fence, frames, lastEffect>>

Next ==
    \/ ParseArgs \/ InitWindow \/ LoadGLAD \/ RenderShader \/ ComputeShader
    \/ SendBuffers \/ LoopTest \/ MouseStep \/ KeyStep \/ Upload \/ Dispatch
    \/ Barrier \/ ExportTex \/ ComputeFinish \/ Draw \/ Shutdown

Spec == Init /\ [][Next]_vars

\* A long session: the render loop as it stands after the user has raised the
\* iteration cap to within NearMax of INT_MAX (numpad + adds to niters in
\* every sampled frame, so every value up to INT_MAX is reached).
InitLongRun == InitWith(INT_MAX - NearMax)

SpecLongRun == InitLongRun /\ [][Next]_vars

\* ------------------------------------------------------------------ claims
Range(q) == { q[i] : i \in 1..Len(q) }
Lower(str) == [i \in 1..Len(str) |-> tolower(str[i])]
Width(l) == l[2] - l[1]
Abs(n) == IF n < 0 THEN -n ELSE n
ValidView(P) == P.xlim[1] < P.xlim[2] /\ P.ylim[1] < P.ylim[2]

\* The state main is in when parse_args has just returned.
AfterParse == pc = "window" \/ (pc = "exited" /\ ~glfw)

\* C1: the viewport always satisfies xlim[0] < xlim[1] and ylim[0] < ylim[1],
\* whatever the sequence of pan and zoom frames.
ViewportValid == ValidView(Params)

\* C2: Params.niters, a 32-bit int, is never negative, whatever the sequence
\* of numpad + and - frames.
NitersNonNegative == Params.niters >= 0

\* No first argument, or one that is none of the three type names ignoring
\* case.
NoTypeNamed(args) ==
    \/ Len(args) = 0
    \/ \A name \in {StrNewton, StrJulia, StrMandelbrot} :
         Lower(args[1]) # Lower(name)

\* C3: with no argument, or a first argument that names no fractal type,
\* parse_args returns INVALID after writing its message and the usage text to
\* std::cerr, and main returns -1 before glfwInit is called.
UsageErrorExit ==
    (pc # "main" /\ NoTypeNamed(argv)) =>
        /\ Type = "INVALID"
        /\ pc = "exited" /\ exitCode = <<-1>>
        /\ ~glfw /\ failed = {}
        /\ cerr = << (IF Len(argv) = 0 THEN "At least one argument is required."
                                       ELSE "Invalid fractal type."), usage >>

UsageErrorExitWitness ==
    /\ pc = "exited"
    /\ argv = <<Str_Julian>>
    /\ cerr = <<"Invalid fractal type.", usage>>

\* C4: Newton with a root count of 0 or -1 ends on the usage-error path: the
\* error and the usage text are on std::cerr, main returns non-zero and
\* nothing has been initialised.
RootCountUsageError ==
    (pc # "main" /\ argv \in {<<StrNewton, Str_0>>, <<StrNewton, Str_m1>>}) =>
        /\ pc = "exited" /\ exitCode # <<0>>
        /\ ~glfw
        /\ Len(cerr) >= 2 /\ usage \in Range(cerr)

\* C5: a start-up stage that fails makes main return a negative code without
\* entering the render loop, and 0 is returned only after the loop has run
\* and closed.
StartupFailureFatal ==
    /\ failed # {} => (pc = "exited" /\ exitCode = <<-1>> /\ frames = 0)
    /\ exitCode = <<0>> => (failed = {} /\ shouldClose)

\* C6: a type name given in any case is accepted with the documented
\* defaults: Mandelbrot with x in [-2,1], y in [-1.5,1.5]; Newton with 3
\* roots and Julia with angle pi/2, both on [-1,1] x [-1,1].
ValidTypeAccepted ==
    (AfterParse /\ Len(argv) = 1) =>
        /\ Lower(argv[1]) = Lower(StrMandelbrot) =>
              /\ Type = "MANDELBROT" /\ pc = "window"
              /\ Params.xlim = <<-4, 2>> /\ Params.ylim = <<-3, 3>>
        /\ Lower(argv[1]) = Lower(StrNewton) =>
              /\ Type = "NEWTON" /\ pc = "window" /\ Params.nroots = 3
              /\ Params.xlim = <<-2, 2>> /\ Params.ylim = <<-2, 2>>
        /\ Lower(argv[1]) = Lower(StrJulia) =>
              /\ Type = "JULIA" /\ pc = "window"
              /\ Params.angle = <<"M_PI", 1, 2>>
              /\ Params.xlim = <<-2, 2>> /\ Params.ylim = <<-2, 2>>

\* A frame in which only the secondary button is held and the viewport is
\* valid.
ZoomFrame ==
    /\ pc = "mouse" /\ pc' = "keys"
    /\ ~mouse'.b1 /\ mouse'.b2
    /\ ValidView(Params)

\* Both centres stay put and every bound moves by |dy| * sqrt(area) / 600.
ZoomSymmetric ==
    /\ Params'.xlim[1] + Params'.xlim[2] = Params.xlim[1] + Params.xlim[2]
    /\ Params'.ylim[1] + Params'.ylim[2] = Params.ylim[1] + Params.ylim[2]
    /\ \E U \in 0..(2 * MaxCoord) :
         /\ U * U = Width(Params.xlim) * Width(Params.ylim)
         /\ \A i \in 1..2 :
              /\ PanDivisor * Abs(Params'.xlim[i] - Params.xlim[i]) = Abs(mouse'.dy) * U
              /\ PanDivisor * Abs(Params'.ylim[i] - Params.ylim[i]) = Abs(mouse'.dy) * U

\* C7 as stated: in a zoom frame the centres are unchanged, a positive dy
\* strictly narrows both intervals and a negative dy strictly widens them,
\* each bound moving by dy * sqrt(area) / 600.
ZoomInOnPositiveDy ==
    [][ZoomFrame =>
         /\ ZoomSymmetric
         /\ mouse'.dy > 0 => /\ Width(Params'.xlim) < Width(Params.xlim)
                             /\ Width(Params'.ylim) < Width(Params.ylim)
         /\ mouse'.dy < 0 => /\ Width(Params'.xlim) > Width(Params.xlim)
                             /\ Width(Params'.ylim) > Width(Params.ylim)]_vars

\* C7 as amended: in a zoom frame the centres are unchanged and each bound
\* moves by dy * sqrt(area) / 600, dy = oldMouseY - mouseY; a positive dy
\* strictly widens both intervals and a negative dy strictly narrows them.
ZoomOutOnPositiveDy ==
    [][ZoomFrame =>
         /\ ZoomSymmetric
         /\ mouse'.dy > 0 => /\ Width(Params'.xlim) > Width(Params.xlim)
                             /\ Width(Params'.ylim) > Width(Params.ylim)
         /\ mouse'.dy < 0 => /\ Width(Params'.xlim) < Width(Params.xlim)
                             /\ Width(Params'.ylim) < Width(Params.ylim)]_vars

ZoomWitness ==
    /\ pc = "keys" /\ ~mouse.b1 /\ mouse.b2 /\ mouse.dy = 300
    /\ Type = "JULIA"
    /\ Params.xlim = <<-4, 4>> /\ Params.ylim = <<-4, 4>>

RECURSIVE DigitsValue(_)
DigitsValue(d) ==
    IF d = <<>> THEN 0 ELSE 10 * DigitsValue(SubSeq(d, 1, Len(d) - 1)) + d[Len(d)]

\* The k-th file written is Screenshot<k-1>.png on three digits, and the
\* frame counter is the number of files written.
NamesInOrder ==
    /\ exp.CurFrame = Len(exp.files)
    /\ \A k \in 1..Len(exp.files) :
         /\ exp.files[k].prefix = "Screenshot" /\ exp.files[k].ext = ".png"
         /\ Len(exp.files[k].digits) = 3
         /\ \A i \in 1..3 : exp.files[k].digits[i] \in 0..9
         /\ DigitsValue(exp.files[k].digits) = k - 1

\* An export whose staging allocation fails writes its message, no file,
\* keeps the frame number, and the loop goes on to draw.
AllocFailSkips ==
    (pc = "export" /\ pc' = "draw" /\ exp'.raw_image = "NULL") =>
        /\ exp' = exp
        /\ cerr' = Append(cerr, "Cannot export images.")

ExportReadsCurrent ==
    [][(pc = "export" /\ pc' = "draw" /\ Len(exp'.files) > Len(exp.files)) =>
         (pending = <<>> /\ texImage = <<Params>>)]_vars

\* Keys act only in frames with Delay >= ActionDelay; such a frame resets
\* LastAction to its Now.
SampledFrames ==
    /\ pc \in {"upload", "dispatch", "barrier", "export"} => Delay >= ActionDelay
    /\ pc = "draw" => /\ Delay >= ActionDelay => LastAction = now
                      /\ Delay < ActionDelay => (keys = NoKeys /\ LastAction < now)
    /\ exp.CurFrame <= frames

\* A step changes the cap only in a sampled frame, by one key's worth, + taking
\* precedence over -.
OneCapChange ==
    (pc = "keys" /\ pc' # "keys") =>
        /\ Delay' < ActionDelay => (Params' = Params /\ pc' = "draw")
        /\ Delay' >= ActionDelay =>
              LET by == IF keys'.shift THEN 10 ELSE 1
              IN  /\ keys'.add => Params'.niters = Params.niters + by
                  /\ (~keys'.add /\ keys'.sub) =>
                        Params'.niters = (IF Params.niters < by THEN 0
                                          ELSE Params.niters - by)
                  /\ (~keys'.add /\ ~keys'.sub) => Params'.niters = Params.niters
                  /\ (pc' = "upload") = keys'.e

\* Two frames that change the cap or export are at least ActionDelay apart.
EffectsApart ==
    lastEffect' # lastEffect =>
        (lastEffect = -1 \/ lastEffect' - lastEffect >= ActionDelay)

\* A drag moves the view also when less than ActionDelay has passed since
\* LastAction.
MouseUnthrottled ==
    (/\ pc = "mouse" /\ pc' = "keys"
     /\ now - LastAction < ActionDelay
     /\ ValidView(Params)
     /\ mouse'.dy # 0 /\ (mouse'.b1 \/ mouse'.b2)) => Params'.ylim # Params.ylim

====
